---- MODULE Spec2Model ----
(***************************************************************************)
(* Verification model of the translation provider                          *)
(* (src/src/modules/pronunciation/translation/AITranslationProvider.ts)    *)
(* and of the background message handler (src/unnamed/part_000).           *)
(*                                                                         *)
(* JavaScript strings are sequences of one-character strings, so that      *)
(* toLowerCase, trim, truncation and truthiness are computed, not assumed. *)
(* An async function runs atomically up to its first await and from one    *)
(* await to the next, which is what each action models.                    *)
(***************************************************************************)
EXTENDS Integers, Sequences, FiniteSets, TLC

(***************************************************************************)
(* Bounds of the model.  CacheMaxSize, cacheTTL and ExplainMaxLen stand in *)
(* for the literals 500 (line 317), 24h (AI_TRANSLATION_CACHE_TTL, line    *)
(* 47) and 200 (line 271), scaled down so that eviction, expiry and        *)
(* truncation happen within a few steps.                                   *)
(***************************************************************************)
CacheMaxSize == 2
cacheTTL == 1
ExplainMaxLen == 2
MaxTime == 1

\* the getMeaning invocations that can be running at once
Callers == {1, 2}

---------------------------------------------------------------------------
(* JavaScript values                                                       *)

Str(s) == [t |-> "string", s |-> s]
NullValue == [t |-> "null", s |-> <<>>]
NumberValue == [t |-> "number", s |-> <<>>]

\* !v is false exactly for a non-empty string, a non-zero number, an object
Truthy(v) == \/ v.t = "string" /\ Len(v.s) > 0
             \/ v.t = "number"

\* the words handed to getMeaning: null, a number, "", " ", "a", " A ", "b"
WordInputs ==
  { NullValue, NumberValue, Str(<<>>), Str(<<" ">>), Str(<<"a">>),
    Str(<<" ", "A", " ">>), Str(<<"b">>) }

LowerChar(ch) == CASE ch = "A" -> "a"
                   [] ch = "B" -> "b"
                   [] OTHER -> ch

RECURSIVE toLowerCase(_)
toLowerCase(s) ==
  IF s = <<>> THEN <<>> ELSE <<LowerChar(Head(s))>> \o toLowerCase(Tail(s))

RECURSIVE trimStart(_)
trimStart(s) ==
  IF s # <<>> /\ Head(s) = " " THEN trimStart(Tail(s)) ELSE s

RECURSIVE trimEnd(_)
trimEnd(s) ==
  IF s # <<>> /\ s[Len(s)] = " " THEN trimEnd(SubSeq(s, 1, Len(s) - 1)) ELSE s

trim(s) == trimEnd(trimStart(s))

---------------------------------------------------------------------------
(* Results and messages                                                    *)

\* '单词参数无效'
MsgInvalidWord == "invalid-word"
\* 'AI API配置不完整：缺少API Key'
MsgMissingApiKey == "missing-api-key"
\* 'AI翻译请求失败'
MsgRequestFailed == "ai-request-failed"
\* '未知错误'
MsgUnknownError == "unknown-error"
\* '请求超时' (the proxy's timeout message)
MsgTimeout == "request-timeout"
\* '请求失败' (the proxy's default message)
MsgProxyFailed == "request-failed"

ProviderName == "ai-translation"

NoData == [explain |-> <<>>, source |-> "none"]
NoResult == [status |-> "none", success |-> FALSE, data |-> NoData,
             cached |-> "undefined", error |-> "undefined"]

\* ' 的释义暂不可用', appended to the word
UnavailableSuffix == <<" ", "u", "n", "a", "v", "a", "i", "l">>

---------------------------------------------------------------------------
(* State                                                                   *)

VARIABLES
  cache,      \* this.cache: the Map's entries in insertion order
  now,        \* Date.now()
  apiConfig,  \* this.apiConfig (the fields getMeaning reads)
  timeout,    \* this.timeout
  calls,      \* the getMeaning invocations that are running
  returned,   \* what the step just taken returned to its caller, if anything
  reqs,       \* the api-request messages in the background handler
  validations,              \* the validate-configuration messages being handled
  apiKeyNotificationShown,  \* browser.storage.session: apiKeyNotificationShown
  notifications,            \* browser.notifications.create calls, by origin
  settings,                 \* the stored user settings (active configuration)
  command,                  \* the translate-page command being handled
  batch,                    \* the getBatchPhonetics invocation
  tooltip,                  \* the tooltip element in the page
  uiConfig,                 \* TooltipRenderer.uiConfig
  lastCall,                 \* the TooltipRenderer call just made
  apiSettled,               \* what universalApi.call settled with in the step
                            \* just taken, where a specification records it
  held,                     \* the data object a caller keeps from getMeaning
  configCall                \* the updateApiConfig call just made

backgroundVars ==
  <<validations, apiKeyNotificationShown, notifications, settings, command>>

tooltipVars == <<tooltip, uiConfig, lastCall>>

callerVars == <<apiSettled, held, configCall>>

providerVars == <<cache, now, apiConfig, timeout, calls, returned>>

vars == <<cache, now, apiConfig, timeout, calls, returned, reqs,
          validations, apiKeyNotificationShown, notifications, settings,
          command, batch, tooltip, uiConfig, lastCall, apiSettled, held,
          configCall>>

\* apiKey values: '' (absent) and a configured key
ApiKeys == { <<>>, <<"k">> }
\* timeout values: 0 (no limit) and a positive limit
Timeouts == { 0, 1 }

IdleCall == [pc |-> "idle", word |-> NullValue, cleanWord |-> <<>>,
             lookup |-> "none"]

\* a return: the word of the invocation that returned, what its cache lookup
\* had found, and its result
Return(word, cleanWord, lookup, result) ==
  [word |-> word, cleanWord |-> cleanWord, lookup |-> lookup,
   result |-> result]

NoReturn == Return(NullValue, <<>>, "none", NoResult)

---------------------------------------------------------------------------
(* The cache: getFromCache and setCache                                    *)

KeyIndex(c, word) ==
  IF \E i \in 1..Len(c) : c[i].key = word
  THEN CHOOSE i \in 1..Len(c) : c[i].key = word
  ELSE 0

RemoveAt(c, i) == SubSeq(c, 1, i - 1) \o SubSeq(c, i + 1, Len(c))

\* mutant: an entry is still served at the instant its ttl has elapsed
IsFresh_Inclusive(entry, t) == t - entry.timestamp <= entry.ttl

\* entry && Date.now() - entry.timestamp < entry.ttl
IsFresh(entry, t) == t - entry.timestamp < entry.ttl

\* mutant: the lookup never finds the entry
getFromCache_NeverHit(word) ==
  [value |-> NoData, found |-> "miss", cache |-> cache]

\* getFromCache(word): the value returned, what the lookup found, and the
\* cache it leaves (an expired entry is deleted)
getFromCache(word) ==
  LET i == KeyIndex(cache, word) IN
  IF i # 0 /\ IsFresh(cache[i], now)
  THEN [value |-> cache[i].data, found |-> "hit", cache |-> cache]
  ELSE IF i # 0
       THEN [value |-> NoData, found |-> "expired", cache |-> RemoveAt(cache, i)]
       ELSE [value |-> NoData, found |-> "miss", cache |-> cache]

\* Map.set: an existing key keeps its position, a new key goes last
MapSet(c, entry) ==
  LET i == KeyIndex(c, entry.key) IN
  IF i # 0 THEN [c EXCEPT ![i] = entry] ELSE Append(c, entry)

\* if (this.cache.size > 500) { oldestKey = keys().next().value;
\*                              if (oldestKey) delete(oldestKey) }
EvictOldest(c) ==
  IF Len(c) > CacheMaxSize
  THEN LET oldestKey == c[1].key IN
       IF Truthy(Str(oldestKey)) THEN Tail(c) ELSE c
  ELSE c

\* setCache(word, data): the cache after the call
setCache(word, data) ==
  EvictOldest(MapSet(cache, [key |-> word, data |-> data,
                             timestamp |-> now, ttl |-> cacheTTL]))

---------------------------------------------------------------------------
(* parseAIResponse                                                         *)

RECURSIVE StripMarkers(_)
StripMarkers(s) ==
  IF s = <<>> THEN <<>>
  ELSE IF Head(s) = "*" THEN StripMarkers(Tail(s))
       ELSE <<Head(s)>> \o StripMarkers(Tail(s))

\* strips the markdown markers ('*') and trims
cleanMarkdownFromResponse(s) == trim(StripMarkers(s))

\* mutant: no text is made up for an unusable response
Placeholder_Empty(word) == <<>>

\* `${word} 的释义暂不可用`
Placeholder(word) == word \o UnavailableSuffix

\* mutant: an explanation of exactly the maximal length is cut as well
Truncate_Inclusive(explain) ==
  IF Len(explain) >= ExplainMaxLen
  THEN SubSeq(explain, 1, ExplainMaxLen) \o <<".", ".", ".">>
  ELSE explain

\* explain.length > 200 ? explain.substring(0, 200) + '...' : explain
Truncate(explain) ==
  IF Len(explain) > ExplainMaxLen
  THEN SubSeq(explain, 1, ExplainMaxLen) \o <<".", ".", ".">>
  ELSE explain

\* content?.trim() throws on a non-string (caught: the placeholder), and is
\* undefined on null (|| '': the placeholder)
parseAIResponse(content, word) ==
  LET explain == IF content.t = "string" THEN trim(content.s) ELSE <<>> IN
  [ explain |-> IF content.t # "string" \/ ~Truthy(Str(explain))
                THEN Placeholder(word)
                ELSE Truncate(cleanMarkdownFromResponse(explain)),
    source |-> ProviderName ]

---------------------------------------------------------------------------
(* getMeaning                                                              *)

\* what universalApi.call can settle with: a result object (success with
\* content, or failure with or without an error text) or a rejection (an
\* Error with a message, or a thrown non-Error)
Contents ==
  { Str(<<"x">>), Str(<<"*", "x">>), Str(<<" ">>), Str(<<>>), NullValue,
    NumberValue }

ApiOutcome(kind, success, content, error) ==
  [kind |-> kind, success |-> success, content |-> content, error |-> error]

ApiOutcomes ==
  { ApiOutcome("result", TRUE, c, "") : c \in Contents }
    \cup { ApiOutcome("result", FALSE, NullValue, e) :
             e \in {"", MsgTimeout} }
    \cup { ApiOutcome("error", FALSE, NullValue, "Failed to fetch") }
    \cup { ApiOutcome("thrown", FALSE, NullValue, "") }

Returned(success, data, cached, error) ==
  [status |-> "returned", success |-> success, data |-> data,
   cached |-> cached, error |-> error]

\* lines 83-86
InvalidResult == Returned(FALSE, NoData, "undefined", MsgInvalidWord)
\* mutant: a hit is not flagged as cached
HitResult_NotFlagged(data) == Returned(TRUE, data, "false", "undefined")

\* lines 94-98
HitResult(data) == Returned(TRUE, data, "true", "undefined")
\* lines 103-106
ConfigErrorResult == Returned(FALSE, NoData, "undefined", MsgMissingApiKey)
\* lines 135-138: result.error || 'AI翻译请求失败'
ApiFailedResult(error) ==
  Returned(FALSE, NoData, "undefined",
           IF error # "" THEN error ELSE MsgRequestFailed)
\* lines 147-151
MissResult(data) == Returned(TRUE, data, "false", "undefined")
\* mutant: no catch, the rejection leaves getMeaning as an exception
CatchResult_Uncaught(outcome) ==
  [status |-> "threw", success |-> FALSE, data |-> NoData,
   cached |-> "undefined", error |-> outcome.error]

\* lines 152-158: error instanceof Error ? error.message : '未知错误'
CatchResult(outcome) ==
  Returned(FALSE, NoData, "undefined",
           IF outcome.kind = "error" THEN outcome.error ELSE MsgUnknownError)

\* mutant: only the type is checked, the empty string passes
IsInvalidWord_TypeOnly(word) == word.t # "string"

\* !word || typeof word !== 'string'
IsInvalidWord(word) == ~Truthy(word) \/ word.t # "string"

\* mutant: the API key is not checked
HasApiKey_Unchecked == TRUE

\* !this.apiConfig.apiKey is false
HasApiKey == Truthy(Str(apiConfig.apiKey))

\* mutant: the word is trimmed but its case is kept
CleanWord_CaseKept(word) == trim(word.s)

\* word.toLowerCase().trim()
CleanWord(word) == trim(toLowerCase(word.s))

\* getMeaning(word) from its entry to its first return or to the await of
\* universalApi.call (lines 80-126)
GetMeaningStart(c, word) ==
  /\ calls[c].pc = "idle"
  /\ IF IsInvalidWord(word)
     THEN /\ returned' = Return(word, <<>>, "none", InvalidResult)
          /\ UNCHANGED <<cache, calls>>
     ELSE LET cleanWord == CleanWord(word)
              got == getFromCache(cleanWord)
          IN /\ cache' = got.cache
             /\ IF got.found = "hit"
                THEN /\ returned' = Return(word, cleanWord, got.found,
                                           HitResult(got.value))
                     /\ calls' = calls
                ELSE IF ~HasApiKey
                THEN /\ returned' = Return(word, cleanWord, got.found,
                                           ConfigErrorResult)
                     /\ calls' = calls
                ELSE /\ returned' = NoReturn
                     /\ calls' = [calls EXCEPT ![c] =
                          [pc |-> "awaiting", word |-> word,
                           cleanWord |-> cleanWord, lookup |-> got.found]]
  /\ UNCHANGED <<now, apiConfig, timeout>>

\* mutant: a failed call is stored in the cache like a successful one
GetMeaningResume_CachesFailure(c, outcome) ==
  /\ calls[c].pc = "awaiting"
  /\ calls' = [calls EXCEPT ![c] = IdleCall]
  /\ LET ok == outcome.kind = "result" /\ outcome.success
         stored == IF ok
                   THEN parseAIResponse(outcome.content, calls[c].cleanWord)
                   ELSE NoData
     IN /\ cache' = setCache(calls[c].cleanWord, stored)
        /\ returned' =
             Return(calls[c].word, calls[c].cleanWord, calls[c].lookup,
                    IF outcome.kind # "result" THEN CatchResult(outcome)
                    ELSE IF ~outcome.success
                    THEN ApiFailedResult(outcome.error)
                    ELSE MissResult(stored))
  /\ UNCHANGED <<now, apiConfig, timeout>>

\* getMeaning from the settling of universalApi.call to its return
\* (lines 126-158)
GetMeaningResume(c, outcome) ==
  /\ calls[c].pc = "awaiting"
  /\ calls' = [calls EXCEPT ![c] = IdleCall]
  /\ LET ret(result) == Return(calls[c].word, calls[c].cleanWord,
                               calls[c].lookup, result)
     IN IF outcome.kind # "result"
        THEN /\ returned' = ret(CatchResult(outcome))
             /\ cache' = cache
        ELSE IF ~outcome.success
        THEN /\ returned' = ret(ApiFailedResult(outcome.error))
             /\ cache' = cache
        ELSE LET meaningInfo ==
                   parseAIResponse(outcome.content, calls[c].cleanWord)
             IN /\ cache' = setCache(calls[c].cleanWord, meaningInfo)
                /\ returned' = ret(MissResult(meaningInfo))
  /\ UNCHANGED <<now, apiConfig, timeout>>

\* mutant: replacing the configuration empties the cache
updateApiConfig_ClearsCache(key, t, given) ==
  /\ apiConfig' = [apiKey |-> key]
  /\ timeout' = IF given THEN t ELSE timeout
  /\ cache' = <<>>
  /\ returned' = NoReturn
  /\ UNCHANGED <<now, calls>>

\* updateApiConfig(apiConfig, timeout?) (lines 250-255)
updateApiConfig(key, t, given) ==
  /\ apiConfig' = [apiKey |-> key]
  /\ timeout' = IF given THEN t ELSE timeout
  /\ returned' = NoReturn
  /\ UNCHANGED <<cache, now, calls>>

\* the clock advances
Tick ==
  /\ now < MaxTime
  /\ now' = now + 1
  /\ returned' = NoReturn
  /\ UNCHANGED <<cache, apiConfig, timeout, calls>>

---------------------------------------------------------------------------
(* getPhonetic and getBatchPhonetics (lines 171-215)                       *)

\* '批量处理失败'
MsgBatchFailed == "batch-failed"

NoPhoneticInfo ==
  [word |-> NullValue, phonetics |-> <<>>, aiTranslation |-> NoData]

PhoneticResult(status, success, data, cached, error) ==
  [status |-> status, success |-> success, data |-> data, cached |-> cached,
   error |-> error]

\* a getPhonetic that has not returned
PendingPhonetic ==
  PhoneticResult("pending", FALSE, NoPhoneticInfo, "undefined", "undefined")

\* mutant: the cached flag of the meaning result is not passed on
getPhonetic_NoCachedFlag(word, meaningResult) ==
  IF meaningResult.success /\ meaningResult.data # NoData
  THEN PhoneticResult("returned", TRUE,
         [word |-> word, phonetics |-> <<>>,
          aiTranslation |-> meaningResult.data],
         "undefined", "undefined")
  ELSE PhoneticResult("returned", FALSE, NoPhoneticInfo, "undefined",
                      meaningResult.error)

\* getPhonetic(word) after its await of getMeaning(word) (lines 176-193)
getPhonetic(word, meaningResult) ==
  IF meaningResult.success /\ meaningResult.data # NoData
  THEN PhoneticResult("returned", TRUE,
         [word |-> word, phonetics |-> <<>>,
          aiTranslation |-> meaningResult.data],
         meaningResult.cached, "undefined")
  ELSE PhoneticResult("returned", FALSE, NoPhoneticInfo, "undefined",
                      meaningResult.error)

\* what Promise.allSettled reports for one promise
Fulfilled(value) == [status |-> "fulfilled", value |-> value, reason |-> ""]

\* the callback of results.map (lines 204-213)
BatchResult(result) ==
  IF result.status = "fulfilled"
  THEN result.value
  ELSE PhoneticResult("returned", FALSE, NoPhoneticInfo, "undefined",
         IF result.reason # "" THEN result.reason ELSE MsgBatchFailed)

\* mutant: only the lookups that succeeded are kept
CollectResults_SuccessOnly(settled) ==
  SelectSeq([i \in 1..Len(settled) |-> BatchResult(settled[i])],
            LAMBDA r : r.success)

\* results.map(...) over the settled promises, in the order of words
CollectResults(settled) ==
  [i \in 1..Len(settled) |-> BatchResult(settled[i])]

NoLookup == [meaning |-> NoResult, phonetic |-> PendingPhonetic]

NoBatch == [pc |-> "none", words |-> <<>>, next |-> 1, lookups |-> <<>>,
            results |-> <<>>]

\* the word lists handed to getBatchPhonetics: up to one word per call slot
BatchWordChoices ==
  { Str(<<"a">>), Str(<<" ", "A", " ">>), Str(<<"b">>), Str(<<>>) }
BatchWords ==
  {<<>>} \cup { <<w>> : w \in BatchWordChoices }
         \cup { <<w1, w2>> : w1, w2 \in BatchWordChoices }

\* getBatchPhonetics(words) is called (line 199)
BatchCall(words) ==
  /\ batch.pc \in {"none", "done"}
  /\ \A c \in Callers : calls[c].pc = "idle"
  /\ batch' = [pc |-> IF words = <<>> THEN "joining" ELSE "mapping",
               words |-> words, next |-> 1,
               lookups |-> [i \in 1..Len(words) |-> NoLookup],
               results |-> <<>>]
  /\ returned' = NoReturn
  /\ UNCHANGED <<cache, now, apiConfig, timeout, calls>>

\* one callback of words.map: getPhonetic(word) runs into getMeaning(word),
\* which returns or awaits the API call (line 202).  The callbacks follow one
\* another with nothing in between: no other action is enabled while
\* batch.pc = "mapping".
BatchMap ==
  /\ batch.pc = "mapping"
  /\ LET i == batch.next IN
       /\ GetMeaningStart(i, batch.words[i])
       /\ batch' = [batch EXCEPT
            !.lookups[i].meaning = returned'.result,
            !.next = i + 1,
            !.pc = IF i = Len(batch.words) THEN "joining" ELSE "mapping"]

\* the API call of the lookup at position i settles and its getMeaning
\* returns
BatchMeaningSettles(i, outcome) ==
  /\ batch.pc = "joining"
  /\ GetMeaningResume(i, outcome)
  /\ batch' = [batch EXCEPT !.lookups[i].meaning = returned'.result]

\* the getPhonetic at position i goes on after its await and returns
PhoneticResume(i) ==
  /\ batch.pc = "joining"
  /\ i \in 1..Len(batch.words)
  /\ batch.lookups[i].meaning.status = "returned"
  /\ batch.lookups[i].phonetic.status = "pending"
  /\ batch' = [batch EXCEPT !.lookups[i].phonetic =
                 getPhonetic(batch.words[i], batch.lookups[i].meaning)]
  /\ returned' = NoReturn
  /\ UNCHANGED <<cache, now, apiConfig, timeout, calls>>

\* Promise.allSettled settles and getBatchPhonetics returns (lines 201-214)
BatchJoin ==
  /\ batch.pc = "joining"
  /\ \A i \in 1..Len(batch.words) : batch.lookups[i].phonetic.status # "pending"
  /\ batch' = [batch EXCEPT
       !.pc = "done",
       !.results = CollectResults(
          [i \in 1..Len(batch.words) |-> Fulfilled(batch.lookups[i].phonetic)])]
  /\ returned' = NoReturn
  /\ UNCHANGED <<cache, now, apiConfig, timeout, calls>>

---------------------------------------------------------------------------
(* TooltipRenderer (lines 353-608).  The markup a builder returns is       *)
(* modelled as the elements it denotes: the phonetic row and the meaning   *)
(* container with their child nodes in document order.                     *)

MaxRowNodes == 2

\* '获取音标中...'
PhoneticLoadingText == <<"p", ".", ".", ".">>
\* '获取词义中...'
MeaningLoadingText == <<"m", ".", ".", ".">>
\* '音标获取失败'
PhoneticFailedText == <<"f", "a", "i", "l">>
\* '暂无音标信息'
NoPhoneticText == <<"n", "o", "n", "e">>

\* what a template literal prints for a value: undefined prints "undefined"
Interpolate(v) ==
  IF v.t = "string" THEN v.s
  ELSE <<"u", "n", "d", "e", "f", "i", "n", "e", "d">>

Node(class, text) == [class |-> class, text |-> text]

\* elementData.phonetic: undefined, or phonetics, aiTranslation and error
NoPhonetic == [defined |-> FALSE, phonetics |-> <<>>, aiTranslation |-> NoData,
               error |-> [defined |-> FALSE, hasPhoneticError |-> FALSE,
                          phoneticErrorMessage |-> NullValue]]

PhoneticErrors ==
  { NoPhonetic.error,
    [defined |-> TRUE, hasPhoneticError |-> FALSE,
     phoneticErrorMessage |-> NullValue],
    [defined |-> TRUE, hasPhoneticError |-> TRUE,
     phoneticErrorMessage |-> NullValue],
    [defined |-> TRUE, hasPhoneticError |-> TRUE,
     phoneticErrorMessage |-> Str(<<"E">>)] }

\* phonetics: none, one entry without text, one entry with text
PhoneticLists == { <<>>, << [text |-> <<>>] >>, << [text |-> <<"f">>] >> }

Translations == { NoData, [explain |-> <<"x">>, source |-> ProviderName] }

PhoneticInfos ==
  { [defined |-> TRUE, phonetics |-> ph, aiTranslation |-> tr, error |-> er] :
      ph \in PhoneticLists, tr \in Translations, er \in PhoneticErrors }

\* elementData.word: '', 'a', 'a b', 'a,'
TooltipTexts == { <<>>, <<"a">>, <<"a", " ", "b">>, <<"a", ",">> }

ElementData == { [word |-> w, phonetic |-> ph] :
                   w \in TooltipTexts, ph \in PhoneticInfos \cup {NoPhonetic} }

\* DOMUtils.extractWords: the tokens between whitespace (' ') and
\* punctuation (',')
RECURSIVE extractWords(_)
extractWords(text) ==
  IF text = <<>> THEN <<>>
  ELSE IF Head(text) \in {" ", ","} THEN extractWords(Tail(text))
  ELSE LET rest == extractWords(Tail(text)) IN
       IF Len(text) > 1 /\ text[2] \notin {" ", ","}
       THEN <<(<<Head(text)>> \o Head(rest))>> \o Tail(rest)
       ELSE <<(<<Head(text)>>)>> \o rest

NoTooltip ==
  [kind |-> "none", word |-> <<>>, entries |-> <<>>,
   hasPhoneticRow |-> FALSE, phoneticRow |-> <<>>,
   hasMeaningContainer |-> FALSE, meaningContainer |-> <<>>,
   audioButtons |-> <<>>]

\* createPhraseTooltipHTML (lines 391-416)
createPhraseTooltipHTML(phrase, words) ==
  [NoTooltip EXCEPT !.kind = "phrase", !.word = phrase, !.entries = words,
     !.audioButtons = IF uiConfig.showPlayButton THEN <<"speaker">> ELSE <<>>]

\* phonetic?.phonetics[0]?.text || ''
PhoneticTextOf(phonetic) ==
  IF phonetic.defined /\ phonetic.phonetics # <<>>
  THEN phonetic.phonetics[1].text
  ELSE <<>>

\* mutant: the error is shown before the resolved phonetic text
WordPhoneticDisplay_ErrorFirst(phoneticText, hasPhoneticError, message) ==
  IF hasPhoneticError
  THEN << Node("wxt-phonetic-error", Interpolate(message)) >>
  ELSE IF Truthy(Str(phoneticText))
  THEN << Node("wxt-phonetic-text", phoneticText) >>
  ELSE << Node("wxt-phonetic-loading", PhoneticLoadingText) >>

\* lines 430-438: the children of the phonetic row
WordPhoneticDisplay(phoneticText, hasPhoneticError, message) ==
  IF Truthy(Str(phoneticText))
  THEN << Node("wxt-phonetic-text", phoneticText) >>
  ELSE IF hasPhoneticError
  THEN << Node("wxt-phonetic-error", Interpolate(message)) >>
  ELSE << Node("wxt-phonetic-loading", PhoneticLoadingText) >>

\* createWordTooltipHTML (lines 422-467)
createWordTooltipHTML(elementData) ==
  LET phonetic == elementData.phonetic
      aiTranslation == phonetic.aiTranslation
  IN [NoTooltip EXCEPT
        !.kind = "word",
        !.word = elementData.word,
        !.hasPhoneticRow = TRUE,
        !.phoneticRow =
           WordPhoneticDisplay(PhoneticTextOf(phonetic),
                               phonetic.error.hasPhoneticError,
                               phonetic.error.phoneticErrorMessage),
        !.hasMeaningContainer = TRUE,
        !.meaningContainer =
           IF aiTranslation # NoData
           THEN << Node("wxt-meaning-text", aiTranslation.explain) >>
           ELSE << Node("wxt-meaning-loading", MeaningLoadingText) >>,
        !.audioButtons =
           IF uiConfig.showPlayButton THEN <<"speaker">> ELSE <<>>]

\* createMainTooltipHTML (lines 375-384)
createMainTooltipHTML(elementData) ==
  LET words == extractWords(elementData.word)
      isPhrase == Len(words) > 1
  IN IF isPhrase
     THEN createPhraseTooltipHTML(elementData.word, words)
     ELSE createWordTooltipHTML(elementData)

\* createNestedWordTooltipHTML (lines 476-522); an omitted argument is
\* undefined
createNestedWordTooltipHTML(word, phoneticText, hasError, errorMessage) ==
  [NoTooltip EXCEPT
     !.kind = "nested",
     !.word = word,
     !.hasPhoneticRow = TRUE,
     !.phoneticRow =
        IF Truthy(phoneticText)
        THEN << Node("wxt-phonetic-text", phoneticText.s) >>
        ELSE IF hasError
        THEN << Node("wxt-phonetic-error",
                     IF Truthy(errorMessage) THEN errorMessage.s
                     ELSE PhoneticFailedText) >>
        ELSE << Node("wxt-phonetic-loading", PhoneticLoadingText) >>,
     !.hasMeaningContainer = TRUE,
     !.meaningContainer = << Node("wxt-meaning-loading", MeaningLoadingText) >>,
     !.audioButtons = <<"uk", "us">>]

\* the index of the first node of a class (querySelector), 0 if there is none
FirstOfClass(nodes, class) ==
  IF \E i \in 1..Len(nodes) : nodes[i].class = class
  THEN CHOOSE i \in 1..Len(nodes) :
         /\ nodes[i].class = class
         /\ \A j \in 1..(i - 1) : nodes[j].class # class
  ELSE 0

\* querySelector(class) and, if it finds an element, element.remove()
RemoveFirstOfClass(nodes, class) ==
  LET i == FirstOfClass(nodes, class) IN
  IF i # 0 THEN RemoveAt(nodes, i) ELSE nodes

\* mutant: a meaning element is created on every call
SetMeaningText_AlwaysNew(nodes, meaning) ==
  Append(nodes, Node("wxt-meaning-text", meaning))

\* lines 546-555: the meaning element is found or created, its text is set
SetMeaningText(nodes, meaning) ==
  LET i == FirstOfClass(nodes, "wxt-meaning-text") IN
  IF i # 0
  THEN [nodes EXCEPT ![i].text = meaning]
  ELSE Append(nodes, Node("wxt-meaning-text", meaning))

\* updateTooltipWithMeaning(tooltip, meaning) (lines 533-557)
updateTooltipWithMeaning(t, meaning) ==
  IF ~t.hasMeaningContainer THEN t
  ELSE [t EXCEPT !.meaningContainer =
          SetMeaningText(RemoveFirstOfClass(@, "wxt-meaning-loading"), meaning)]

\* lines 581-605: the element that is created for the phonetic info
PhoneticElement(phoneticInfo) ==
  IF phoneticInfo.error.hasPhoneticError
  THEN Node("wxt-phonetic-error",
            IF Truthy(phoneticInfo.error.phoneticErrorMessage)
            THEN phoneticInfo.error.phoneticErrorMessage.s
            ELSE PhoneticFailedText)
  ELSE IF Len(phoneticInfo.phonetics) > 0
  THEN LET phoneticText == phoneticInfo.phonetics[1].text IN
       IF Truthy(Str(phoneticText))
       THEN Node("wxt-phonetic-text", phoneticText)
       ELSE Node("wxt-phonetic-error", NoPhoneticText)
  ELSE Node("wxt-phonetic-error", NoPhoneticText)

\* mutant: the loading placeholder is left in the row
ClearPhoneticLoading_Kept(nodes) == nodes

\* lines 573-576
ClearPhoneticLoading(nodes) == RemoveFirstOfClass(nodes, "wxt-phonetic-loading")

\* updateTooltipWithPhonetic(tooltip, phoneticInfo) (lines 568-608)
updateTooltipWithPhonetic(t, phoneticInfo) ==
  IF ~t.hasPhoneticRow THEN t
  ELSE [t EXCEPT !.phoneticRow =
          Append(ClearPhoneticLoading(@), PhoneticElement(phoneticInfo))]

\* the call just made: its name and its arguments
Call(op, word, phonetic, text, hasError, message) ==
  [op |-> op, word |-> word, phonetic |-> phonetic, text |-> text,
   hasError |-> hasError, message |-> message]

NoCall == Call("none", <<>>, NoPhonetic, NullValue, FALSE, NullValue)

\* the tooltip is filled with createMainTooltipHTML(elementData)
CreateMainTooltip(elementData) ==
  /\ tooltip' = createMainTooltipHTML(elementData)
  /\ lastCall' = Call("createMainTooltipHTML", elementData.word,
                      elementData.phonetic, NullValue, FALSE, NullValue)
  /\ UNCHANGED uiConfig

\* the arguments of createNestedWordTooltipHTML that may be omitted
OptionalTexts == { NullValue, Str(<<>>), Str(<<"f">>) }
OptionalMessages == { NullValue, Str(<<"E">>) }

\* the tooltip is filled with createNestedWordTooltipHTML(...)
CreateNestedWordTooltip(word, phoneticText, hasError, errorMessage) ==
  /\ tooltip' = createNestedWordTooltipHTML(word, phoneticText, hasError,
                                            errorMessage)
  /\ lastCall' = Call("createNestedWordTooltipHTML", word, NoPhonetic,
                      phoneticText, hasError, errorMessage)
  /\ UNCHANGED uiConfig

\* the explanations handed to updateTooltipWithMeaning
Meanings == { <<>>, <<"x">>, <<"y">> }

UpdateTooltipWithMeaning(meaning) ==
  /\ tooltip.kind # "none"
  /\ tooltip' = updateTooltipWithMeaning(tooltip, meaning)
  /\ lastCall' = Call("updateTooltipWithMeaning", <<>>, NoPhonetic,
                      Str(meaning), FALSE, NullValue)
  /\ UNCHANGED uiConfig

UpdateTooltipWithPhonetic(phoneticInfo) ==
  /\ tooltip.kind # "none"
  /\ Len(tooltip.phoneticRow) < MaxRowNodes
  /\ tooltip' = updateTooltipWithPhonetic(tooltip, phoneticInfo)
  /\ lastCall' = Call("updateTooltipWithPhonetic", <<>>, phoneticInfo,
                      NullValue, FALSE, NullValue)
  /\ UNCHANGED uiConfig

\* updateConfig(uiConfig) (lines 614-616)
updateConfig(show) ==
  /\ uiConfig' = [showPlayButton |-> show]
  /\ lastCall' = Call("updateConfig", <<>>, NoPhonetic, NullValue, FALSE,
                      NullValue)
  /\ UNCHANGED tooltip

TooltipIdle ==
  /\ tooltip = NoTooltip
  /\ uiConfig = [showPlayButton |-> TRUE]
  /\ lastCall = NoCall

---------------------------------------------------------------------------
(* getMeaning as its caller sees it: the API result that a call consumed   *)
(* and the data object that the caller keeps                               *)

NoOutcome == ApiOutcome("none", FALSE, NullValue, "")

NoHeld == [key |-> <<>>, original |-> NoData, valid |-> FALSE]

\* the arguments of an updateApiConfig call; given: a timeout was passed
NoConfigCall == [apiKey |-> <<>>, timeout |-> 0, given |-> FALSE, made |-> FALSE]

CallerIdle ==
  /\ apiSettled = NoOutcome
  /\ held = NoHeld
  /\ configCall = NoConfigCall

\* the characters of the responses that are parsed
ParseAlphabet == {"x", "*"}

\* every response text of up to ExplainMaxLen + 2 of these characters, two
\* texts with whitespace, and the contents that are not text
ParseContents ==
  { Str(s) : s \in UNION { [1..n -> ParseAlphabet] :
                             n \in 0..(ExplainMaxLen + 2) } }
    \cup { Str(<<" ">>), Str(<<" ", "x", " ">>), NullValue, NumberValue }

ParseOutcomes ==
  { ApiOutcome("result", TRUE, c, "") : c \in ParseContents }
    \cup { ApiOutcome("result", FALSE, NullValue, "") }

ParseWords == { Str(<<"a">>), Str(<<"b">>) }

\* getMeaning goes on with the result of the API call (lines 126-158)
Settle(c, outcome) ==
  /\ GetMeaningResume(c, outcome)
  /\ apiSettled' = outcome
  /\ UNCHANGED <<held, configCall>>

\* any other step of the provider
Unsettled(A) ==
  /\ A
  /\ apiSettled' = NoOutcome
  /\ UNCHANGED <<held, configCall>>

\* the object that the caller holds after a step of getMeaning: the object
\* a hit or a successful miss returned is the one in the cache entry (lines
\* 94-98 and 299: entry.data itself; lines 145-149: meaningInfo is stored
\* and returned); it stops being the cached one when its entry goes
HeldAfter(key) ==
  IF returned'.result.status = "returned" /\ returned'.result.success
  THEN IF KeyIndex(cache', key) = 0 THEN NoHeld
       ELSE [key |-> key,
             original |-> IF held.valid /\ held.key = key
                             /\ returned'.result.cached = "true"
                          THEN held.original
                          ELSE returned'.result.data,
             valid |-> TRUE]
  ELSE IF held.valid /\ KeyIndex(cache', held.key) = 0 THEN NoHeld
  ELSE held

\* getMeaning(word) up to its return or its await, and what the caller holds
HoldStart(c, word) ==
  /\ GetMeaningStart(c, word)
  /\ held' = HeldAfter(returned'.cleanWord)
  /\ UNCHANGED <<apiSettled, configCall>>

\* getMeaning after its await, and what the caller holds
HoldResume(c, outcome) ==
  /\ GetMeaningResume(c, outcome)
  /\ held' = HeldAfter(returned'.cleanWord)
  /\ UNCHANGED <<apiSettled, configCall>>

\* the texts a caller writes into the data it received
CallerTexts == { <<"!">> }

\* the caller assigns to the explain field of the object it holds
CallerWrites(text) ==
  /\ held.valid
  /\ LET i == KeyIndex(cache, held.key) IN
       /\ cache[i].data.explain # text
       /\ cache' = [cache EXCEPT ![i].data.explain = text]
  /\ returned' = NoReturn
  /\ UNCHANGED <<now, apiConfig, timeout, calls, apiSettled, held, configCall>>

HoldOutcomes ==
  { ApiOutcome("result", TRUE, Str(<<"x">>), ""),
    ApiOutcome("result", TRUE, NullValue, ""),
    ApiOutcome("result", FALSE, NullValue, "") }

\* the caller calls updateApiConfig(apiConfig) or
\* updateApiConfig(apiConfig, timeout)
ConfigCall(key, t, given) ==
  /\ updateApiConfig(key, t, given)
  /\ configCall' = [apiKey |-> key, timeout |-> t, given |-> given,
                    made |-> TRUE]
  /\ UNCHANGED <<apiSettled, held>>

\* any other step of the provider
NotConfigCall(A) ==
  /\ A
  /\ configCall' = NoConfigCall
  /\ UNCHANGED <<apiSettled, held>>

---------------------------------------------------------------------------
(* The background handler of 'api-request' messages (part_000, 119-188)    *)

\* message.data.timeout: negative, 0 or absent (no limit), positive
RequestTimeouts == { -1, 0, 1 }

\* status 0 and statusText "": the error object has no such fields
NoResponse == [kind |-> "none", data |-> NullValue, message |-> "",
               status |-> 0, statusText |-> "", thrown |-> "none"]

\* sendResponse({ success: true, data: parsedData })
SuccessResponse(data) ==
  [NoResponse EXCEPT !.kind = "success", !.data = data]

\* sendResponse({ success: false, error: { message, ... } }); thrown is the
\* name of the error that was caught, "none" for a non-OK HTTP status
FailureResponse(message, thrown) ==
  [NoResponse EXCEPT !.kind = "failure", !.message = message,
                     !.thrown = thrown]

\* responses: the calls of sendResponse; body: responseData
NoRequest == [st |-> "none", timeout |-> 0, timerSet |-> FALSE,
              timerLive |-> FALSE, aborted |-> FALSE, silent |-> FALSE,
              ok |-> FALSE, body |-> <<>>, responses |-> 0,
              response |-> NoResponse]

\* the response bodies: the JSON texts "x", "*x", " ", "", null and 1, and
\* the texts x, the empty text and "x (unterminated), which are not JSON
ResponseBodies ==
  { <<"\"", "x", "\"">>, <<"\"", "*", "x", "\"">>, <<"\"", " ", "\"">>,
    <<"\"", "\"">>, <<"n", "u", "l", "l">>, <<"1">>,
    <<"x">>, <<>>, <<"\"", "x">> }

\* mutant: the body is passed on as text, never parsed
parsedData_RawOnly(responseData) == Str(responseData)

\* lines 146-152: JSON.parse(responseData), or responseData itself when
\* JSON.parse throws
parsedData(responseData) ==
  IF responseData = <<"n", "u", "l", "l">> THEN NullValue
  ELSE IF responseData # <<>>
          /\ \A i \in 1..Len(responseData) : responseData[i] \in {"0", "1"}
  THEN NumberValue
  ELSE IF /\ Len(responseData) >= 2
          /\ responseData[1] = "\""
          /\ responseData[Len(responseData)] = "\""
          /\ \A i \in 2..(Len(responseData) - 1) : responseData[i] # "\""
  THEN Str(SubSeq(responseData, 2, Len(responseData) - 1))
  ELSE Str(responseData)

\* mutant: the timer is armed for any non-zero timeout
TimerArmed_Truthy(t) == t # 0

\* if (timeout && timeout > 0)
TimerArmed(t) == t # 0 /\ t > 0

\* what fetch or response.text() rejects with when the transport fails
TransportErrors ==
  { [name |-> "TypeError", message |-> "Failed to fetch"],
    [name |-> "TypeError", message |-> ""] }

\* what fetch rejects with when its signal is aborted
AbortError == [name |-> "AbortError", message |-> "The user aborted a request."]

\* mutant: the AbortError is reported like any other error
ErrorMessage_NoAbortCase(error) ==
  IF error.message # "" THEN error.message ELSE MsgProxyFailed

\* lines 172-177
ErrorMessage(error) ==
  IF error.name = "AbortError" THEN MsgTimeout
  ELSE IF error.message # "" THEN error.message
  ELSE MsgProxyFailed

\* `HTTP ${response.status}: ${response.statusText}`
HttpErrorMessage == "HTTP 500: Internal Server Error"

\* the handler from its entry to the await of fetch (lines 121-133); the
\* endpoint it reaches is one that answers or one that never does
ProxyReceive(c, silent) ==
  /\ reqs[c].st = "sent"
  /\ reqs' = [reqs EXCEPT ![c].st = "fetching",
                          ![c].timerSet = TimerArmed(reqs[c].timeout),
                          ![c].timerLive = TimerArmed(reqs[c].timeout),
                          ![c].silent = silent]
  /\ returned' = NoReturn
  /\ UNCHANGED <<cache, now, apiConfig, timeout, calls>>

\* setTimeout(() => controller.abort(), timeout) fires (line 130)
TimerFires(c) ==
  /\ reqs[c].timerLive
  /\ reqs' = [reqs EXCEPT ![c].timerLive = FALSE, ![c].aborted = TRUE]
  /\ returned' = NoReturn
  /\ UNCHANGED <<cache, now, apiConfig, timeout, calls>>

\* fetch resolves with the response headers; the handler clears the timer
\* and awaits the body (lines 133-145)
FetchResolves(c, ok) ==
  /\ reqs[c].st = "fetching"
  /\ ~reqs[c].silent
  /\ ~reqs[c].aborted
  /\ reqs' = [reqs EXCEPT ![c].st = "reading", ![c].timerLive = FALSE,
                          ![c].ok = ok]
  /\ returned' = NoReturn
  /\ UNCHANGED <<cache, now, apiConfig, timeout, calls>>

\* response.text() resolves; the handler answers (lines 145-168)
BodyRead(c, body) ==
  /\ reqs[c].st = "reading"
  /\ reqs' = [reqs EXCEPT
                ![c].st = "responded",
                ![c].body = body,
                ![c].responses = @ + 1,
                ![c].response =
                   IF reqs[c].ok
                   THEN SuccessResponse(parsedData(body))
                   ELSE [FailureResponse(HttpErrorMessage, "none") EXCEPT
                           !.status = 500,
                           !.statusText = "Internal Server Error"]]
  /\ returned' = NoReturn
  /\ UNCHANGED <<cache, now, apiConfig, timeout, calls>>

\* the catch block (lines 169-185)
Caught(c, error) ==
  /\ reqs' = [reqs EXCEPT ![c].st = "responded",
                ![c].responses = @ + 1,
                ![c].response = FailureResponse(ErrorMessage(error), error.name)]
  /\ returned' = NoReturn
  /\ UNCHANGED <<cache, now, apiConfig, timeout, calls>>

\* fetch or response.text() rejects with a transport error
TransportFails(c, error) ==
  /\ reqs[c].st \in {"fetching", "reading"}
  /\ ~reqs[c].silent
  /\ ~reqs[c].aborted
  /\ Caught(c, error)

\* the aborted fetch rejects with an AbortError
AbortRejects(c) ==
  /\ reqs[c].st = "fetching"
  /\ reqs[c].aborted
  /\ Caught(c, AbortError)

---------------------------------------------------------------------------
(* getMeaning over the background handler: universalApi.call sends the     *)
(* api-request message with the provider's timeout and settles with the    *)
(* handler's response                                                      *)

\* the result universalApi.call makes of the handler's response
ApiOutcomeOf(response) ==
  IF response.kind = "success"
  THEN ApiOutcome("result", TRUE, response.data, "")
  ELSE ApiOutcome("result", FALSE, NullValue, response.message)

GetMeaningViaProxy(c, word) ==
  /\ GetMeaningStart(c, word)
  /\ reqs' = IF calls'[c].pc = "awaiting"
             THEN [reqs EXCEPT ![c] = [NoRequest EXCEPT !.st = "sent",
                                                        !.timeout = timeout]]
             ELSE reqs

Deliver(c) ==
  /\ reqs[c].st = "responded"
  /\ GetMeaningResume(c, ApiOutcomeOf(reqs[c].response))
  /\ reqs' = [reqs EXCEPT ![c] = NoRequest]

ProxyWords == { Str(<<"a">>), Str(<<>>) }


---------------------------------------------------------------------------
(* The background handler of 'validate-configuration' messages (part_000,  *)
(* 61-109) and validateApiConfiguration (part_000, 216-241)                *)

MaxNotifications == 3

\* the validate-configuration messages that can be in the handler at once
Messages == {1, 2}

\* message.source: 'user_action', or anything else (the page_load logic)
Sources == {"page_load", "user_action"}

\* the stored settings: no active configuration, an active configuration
\* without an API key, an active configuration with one
StoredSettings ==
  { [active |-> FALSE, apiKey |-> <<>>],
    [active |-> TRUE, apiKey |-> <<>>],
    [active |-> TRUE, apiKey |-> <<"k">>] }

\* !!activeConfig?.config?.apiKey
isConfigValid(s) == s.active /\ Truthy(Str(s.apiKey))

NoValidation == [pc |-> "none", source |-> "page_load", answers |-> <<>>]

NoNotifications == [page_load |-> 0, user_action |-> 0, command |-> 0]

NotificationCount ==
  notifications.page_load + notifications.user_action + notifications.command

\* browser.notifications.create(notificationOptions)
Notify(origin) ==
  notifications' = [notifications EXCEPT ![origin] = @ + 1]

\* sendResponse(answer), after which the async function returns
Answer(m, answer) ==
  validations' = [validations EXCEPT ![m].pc = "done",
                                     ![m].answers = Append(@, answer)]

\* the listener up to the await of getUserSettings (lines 61-66)
ValidateReceive(m, source) ==
  /\ validations[m].pc \in {"none", "done", "failed"}
  /\ NotificationCount < MaxNotifications
  /\ validations' = [validations EXCEPT ![m] =
       [pc |-> "settings", source |-> source, answers |-> <<>>]]
  /\ UNCHANGED <<apiKeyNotificationShown, notifications, settings, command>>

\* getUserSettings settles; the handler goes on to its answer or to the
\* await of storage.session.get (lines 66-98)
SettingsRead(m, threw) ==
  /\ validations[m].pc = "settings"
  /\ IF threw
     THEN Answer(m, FALSE) /\ UNCHANGED notifications
     ELSE IF isConfigValid(settings)
     THEN Answer(m, TRUE) /\ UNCHANGED notifications
     ELSE IF validations[m].source = "user_action"
     THEN Notify("user_action") /\ Answer(m, FALSE)
     ELSE /\ validations' = [validations EXCEPT ![m].pc = "flagGet"]
          /\ UNCHANGED notifications
  /\ UNCHANGED <<apiKeyNotificationShown, settings, command>>

\* storage.session.get settles; with the flag, the handler answers or
\* notifies and goes on to the await of storage.session.set (lines 96-103);
\* a rejection is outside the try block (lines 63-86): the async function
\* ends with it and sendResponse is not called
FlagGot(m, rejected) ==
  /\ validations[m].pc = "flagGet"
  /\ IF rejected
     THEN /\ validations' = [validations EXCEPT ![m].pc = "failed"]
          /\ UNCHANGED notifications
     ELSE IF ~apiKeyNotificationShown
     THEN /\ Notify("page_load")
          /\ validations' = [validations EXCEPT ![m].pc = "flagSet"]
     ELSE Answer(m, FALSE) /\ UNCHANGED notifications
  /\ UNCHANGED <<apiKeyNotificationShown, settings, command>>

\* storage.session.set settles; the handler answers (lines 101-106), or
\* ends without an answer when the write is rejected
FlagSet(m, rejected) ==
  /\ validations[m].pc = "flagSet"
  /\ IF rejected
     THEN /\ validations' = [validations EXCEPT ![m].pc = "failed"]
          /\ UNCHANGED apiKeyNotificationShown
     ELSE /\ apiKeyNotificationShown' = TRUE
          /\ Answer(m, FALSE)
  /\ UNCHANGED <<notifications, settings, command>>

\* the user saves other settings
SaveSettings(s) ==
  /\ settings' = s
  /\ UNCHANGED <<validations, apiKeyNotificationShown, notifications, command>>

\* the translate-page command up to the await of getUserSettings inside
\* validateApiConfiguration (part_000, 191-219)
CommandReceive ==
  /\ command = "none"
  /\ NotificationCount < MaxNotifications
  /\ command' = "settings"
  /\ UNCHANGED <<validations, apiKeyNotificationShown, notifications, settings>>

\* validateApiConfiguration after getUserSettings settles (lines 219-240)
CommandSettingsRead(threw) ==
  /\ command = "settings"
  /\ command' = "none"
  /\ IF ~threw /\ ~isConfigValid(settings)
     THEN Notify("command")
     ELSE UNCHANGED notifications
  /\ UNCHANGED <<validations, apiKeyNotificationShown, settings>>

BackgroundIdle ==
  /\ validations = [m \in Messages |-> NoValidation]
  /\ apiKeyNotificationShown = FALSE
  /\ notifications = NoNotifications
  /\ command = "none"


---------------------------------------------------------------------------
(* Specifications.  Each one runs one part of the program and leaves the   *)
(* state of the other parts as it is after start-up.                       *)

\* the state outside the provider and the api-request handler
elsewhereVars == <<backgroundVars, batch, tooltipVars, callerVars>>

ElsewhereIdle ==
  /\ BackgroundIdle
  /\ batch = NoBatch
  /\ TooltipIdle
  /\ CallerIdle
  /\ settings = [active |-> TRUE, apiKey |-> <<"k">>]

\* getMeaning over the api-request handler
ProxyInit ==
  /\ cache = <<>>
  /\ now = 0
  /\ apiConfig = [apiKey |-> <<"k">>]
  /\ timeout \in RequestTimeouts
  /\ calls = [c \in Callers |-> IdleCall]
  /\ returned = NoReturn
  /\ reqs = [c \in Callers |-> NoRequest]
  /\ ElsewhereIdle

ProxyNext ==
  \/ \E c \in Callers, word \in ProxyWords : GetMeaningViaProxy(c, word)
       /\ UNCHANGED elsewhereVars
  \/ \E c \in Callers, silent \in BOOLEAN : ProxyReceive(c, silent)
       /\ UNCHANGED elsewhereVars
  \/ \E c \in Callers : TimerFires(c) /\ UNCHANGED elsewhereVars
  \/ \E c \in Callers, ok \in BOOLEAN : FetchResolves(c, ok)
       /\ UNCHANGED elsewhereVars
  \/ \E c \in Callers, body \in ResponseBodies : BodyRead(c, body)
       /\ UNCHANGED elsewhereVars
  \/ \E c \in Callers, error \in TransportErrors : TransportFails(c, error)
       /\ UNCHANGED elsewhereVars
  \/ \E c \in Callers : AbortRejects(c) /\ UNCHANGED elsewhereVars
  \/ \E c \in Callers : Deliver(c) /\ UNCHANGED elsewhereVars

\* the event loop runs every ready task: a message is delivered, an armed
\* timer fires, an aborted fetch rejects, a response reaches its caller.
\* The network owes nothing: fetch may never settle.
ProxyFairness ==
  \A c \in Callers :
    /\ WF_vars((\E silent \in BOOLEAN : ProxyReceive(c, silent))
                 /\ UNCHANGED elsewhereVars)
    /\ WF_vars(TimerFires(c) /\ UNCHANGED elsewhereVars)
    /\ WF_vars(AbortRejects(c) /\ UNCHANGED elsewhereVars)
    /\ WF_vars(Deliver(c) /\ UNCHANGED elsewhereVars)

ProxySpec == ProxyInit /\ [][ProxyNext]_vars /\ ProxyFairness

\* the validate-configuration handler and the translate-page command
ProviderIdle ==
  /\ cache = <<>>
  /\ now = 0
  /\ apiConfig = [apiKey |-> <<>>]
  /\ timeout = 0
  /\ calls = [c \in Callers |-> IdleCall]
  /\ returned = NoReturn
  /\ reqs = [c \in Callers |-> NoRequest]

ValidationInit ==
  /\ BackgroundIdle
  /\ settings \in StoredSettings
  /\ ProviderIdle
  /\ batch = NoBatch
  /\ TooltipIdle
  /\ CallerIdle

ValidationNext ==
  \/ \E m \in Messages, source \in Sources : ValidateReceive(m, source)
       /\ UNCHANGED <<providerVars, reqs, batch, tooltipVars, callerVars>>
  \/ \E m \in Messages, threw \in BOOLEAN : SettingsRead(m, threw)
       /\ UNCHANGED <<providerVars, reqs, batch, tooltipVars, callerVars>>
  \/ \E m \in Messages, rejected \in BOOLEAN : FlagGot(m, rejected)
       /\ UNCHANGED <<providerVars, reqs, batch, tooltipVars, callerVars>>
  \/ \E m \in Messages, rejected \in BOOLEAN : FlagSet(m, rejected)
       /\ UNCHANGED <<providerVars, reqs, batch, tooltipVars, callerVars>>
  \/ \E s \in StoredSettings : SaveSettings(s)
       /\ UNCHANGED <<providerVars, reqs, batch, tooltipVars, callerVars>>
  \/ CommandReceive
       /\ UNCHANGED <<providerVars, reqs, batch, tooltipVars, callerVars>>
  \/ \E threw \in BOOLEAN : CommandSettingsRead(threw)
       /\ UNCHANGED <<providerVars, reqs, batch, tooltipVars, callerVars>>

ValidationSpec == ValidationInit /\ [][ValidationNext]_vars

\* getBatchPhonetics over the provider
BatchInit ==
  /\ cache = <<>>
  /\ now = 0
  /\ apiConfig \in { [apiKey |-> k] : k \in ApiKeys }
  /\ timeout = 0
  /\ calls = [c \in Callers |-> IdleCall]
  /\ returned = NoReturn
  /\ reqs = [c \in Callers |-> NoRequest]
  /\ BackgroundIdle
  /\ settings = [active |-> TRUE, apiKey |-> <<"k">>]
  /\ batch = NoBatch
  /\ TooltipIdle
  /\ CallerIdle

BatchNext ==
  \/ \E words \in BatchWords : BatchCall(words)
       /\ UNCHANGED <<reqs, backgroundVars, tooltipVars, callerVars>>
  \/ BatchMap /\ UNCHANGED <<reqs, backgroundVars, tooltipVars, callerVars>>
  \/ \E i \in Callers, outcome \in ApiOutcomes :
       BatchMeaningSettles(i, outcome)
         /\ UNCHANGED <<reqs, backgroundVars, tooltipVars, callerVars>>
  \/ \E i \in Callers : PhoneticResume(i)
       /\ UNCHANGED <<reqs, backgroundVars, tooltipVars, callerVars>>
  \/ BatchJoin /\ UNCHANGED <<reqs, backgroundVars, tooltipVars, callerVars>>
  \/ batch.pc # "mapping" /\ Tick
       /\ UNCHANGED <<batch, reqs, backgroundVars, tooltipVars, callerVars>>

BatchSpec == BatchInit /\ [][BatchNext]_vars

\* the tooltip renderer
TooltipInit ==
  /\ ProviderIdle
  /\ batch = NoBatch
  /\ BackgroundIdle
  /\ settings = [active |-> TRUE, apiKey |-> <<"k">>]
  /\ tooltip = NoTooltip
  /\ uiConfig \in { [showPlayButton |-> b] : b \in BOOLEAN }
  /\ lastCall = NoCall
  /\ CallerIdle

TooltipNext ==
  \/ \E elementData \in ElementData :
       CreateMainTooltip(elementData)
         /\ UNCHANGED <<providerVars, reqs, backgroundVars, batch, callerVars>>
  \/ \E word \in TooltipTexts, phoneticText \in OptionalTexts,
        hasError \in BOOLEAN, errorMessage \in OptionalMessages :
       CreateNestedWordTooltip(word, phoneticText, hasError, errorMessage)
         /\ UNCHANGED <<providerVars, reqs, backgroundVars, batch, callerVars>>
  \/ \E meaning \in Meanings :
       UpdateTooltipWithMeaning(meaning)
         /\ UNCHANGED <<providerVars, reqs, backgroundVars, batch, callerVars>>
  \/ \E phoneticInfo \in PhoneticInfos :
       UpdateTooltipWithPhonetic(phoneticInfo)
         /\ UNCHANGED <<providerVars, reqs, backgroundVars, batch, callerVars>>
  \/ \E show \in BOOLEAN : updateConfig(show)
       /\ UNCHANGED <<providerVars, reqs, backgroundVars, batch, callerVars>>

TooltipSpec == TooltipInit /\ [][TooltipNext]_vars

\* getMeaning over responses of every length up to past the cut
ParseInit ==
  /\ cache = <<>>
  /\ now = 0
  /\ apiConfig = [apiKey |-> <<"k">>]
  /\ timeout = 0
  /\ calls = [c \in Callers |-> IdleCall]
  /\ returned = NoReturn
  /\ reqs = [c \in Callers |-> NoRequest]
  /\ BackgroundIdle
  /\ settings = [active |-> TRUE, apiKey |-> <<"k">>]
  /\ batch = NoBatch
  /\ TooltipIdle
  /\ CallerIdle

ParseNext ==
  \/ \E c \in Callers, word \in ParseWords :
       Unsettled(GetMeaningStart(c, word))
         /\ UNCHANGED <<reqs, backgroundVars, batch, tooltipVars>>
  \/ \E c \in Callers, outcome \in ParseOutcomes :
       Settle(c, outcome)
         /\ UNCHANGED <<reqs, backgroundVars, batch, tooltipVars>>
  \/ Unsettled(Tick) /\ UNCHANGED <<reqs, backgroundVars, batch, tooltipVars>>

ParseSpec == ParseInit /\ [][ParseNext]_vars

\* getMeaning and a caller that writes to the data it was given
HoldNext ==
  \/ \E c \in Callers, word \in ParseWords :
       HoldStart(c, word)
         /\ UNCHANGED <<reqs, backgroundVars, batch, tooltipVars>>
  \/ \E c \in Callers, outcome \in HoldOutcomes :
       HoldResume(c, outcome)
         /\ UNCHANGED <<reqs, backgroundVars, batch, tooltipVars>>
  \/ \E text \in CallerTexts : CallerWrites(text)
       /\ UNCHANGED <<reqs, backgroundVars, batch, tooltipVars>>
  \/ Tick
       /\ UNCHANGED <<callerVars, reqs, backgroundVars, batch, tooltipVars>>

HoldSpec == ParseInit /\ [][HoldNext]_vars

\* the provider and a caller that replaces its configuration
ConfigNext ==
  \/ \E key \in ApiKeys, t \in Timeouts, given \in BOOLEAN :
       ConfigCall(key, t, given)
         /\ UNCHANGED <<reqs, backgroundVars, batch, tooltipVars>>
  \/ \E c \in Callers, word \in ParseWords :
       NotConfigCall(GetMeaningStart(c, word))
         /\ UNCHANGED <<reqs, backgroundVars, batch, tooltipVars>>
  \/ \E c \in Callers, outcome \in HoldOutcomes :
       NotConfigCall(GetMeaningResume(c, outcome))
         /\ UNCHANGED <<reqs, backgroundVars, batch, tooltipVars>>
  \/ NotConfigCall(Tick)
       /\ UNCHANGED <<reqs, backgroundVars, batch, tooltipVars>>

ConfigSpec == ParseInit /\ [][ConfigNext]_vars

---------------------------------------------------------------------------
(* The provider on its own: universalApi.call settles in any way           *)

Init ==
  /\ cache = <<>>
  /\ now = 0
  /\ apiConfig \in { [apiKey |-> k] : k \in ApiKeys }
  /\ timeout \in Timeouts
  /\ calls = [c \in Callers |-> IdleCall]
  /\ returned = NoReturn
  /\ reqs = [c \in Callers |-> NoRequest]
  /\ ElsewhereIdle

Next ==
  \/ \E c \in Callers, word \in WordInputs : GetMeaningStart(c, word)
       /\ UNCHANGED <<reqs, elsewhereVars>>
  \/ \E c \in Callers, outcome \in ApiOutcomes : GetMeaningResume(c, outcome)
       /\ UNCHANGED <<reqs, elsewhereVars>>
  \/ \E key \in ApiKeys, t \in Timeouts, given \in BOOLEAN :
       updateApiConfig(key, t, given) /\ UNCHANGED <<reqs, elsewhereVars>>
  \/ Tick /\ UNCHANGED <<reqs, elsewhereVars>>

Spec == Init /\ [][Next]_vars

---------------------------------------------------------------------------
(* Vocabulary of the properties                                            *)

ValidWords == { w \in WordInputs : w.t = "string" /\ Len(w.s) > 0 }
InvalidWords == WordInputs \ ValidWords

\* the key a valid word is cached under
KeyOf(w) == trim(toLowerCase(w.s))

\* the step is the first part of a getMeaning(w) that returns at once
ReturnsAtOnce(w) ==
  /\ calls' = calls
  /\ returned' # NoReturn
  /\ returned'.word = w

\* the step is the first part of a getMeaning(w) that goes on to the network
GoesToNetwork(w) ==
  \E c \in Callers : /\ calls[c].pc = "idle"
                     /\ calls'[c].pc = "awaiting"
                     /\ calls'[c].word = w

\* the step is the first part of a getMeaning(w)
Started(w) == ReturnsAtOnce(w) \/ GoesToNetwork(w)

\* the cache holds an entry for key k that is within / past its ttl
Unexpired(k) ==
  \E i \in 1..Len(cache) :
     cache[i].key = k /\ now - cache[i].timestamp < cache[i].ttl
Expired(k) ==
  \E i \in 1..Len(cache) :
     cache[i].key = k /\ now - cache[i].timestamp >= cache[i].ttl

\* two words that differ only in letter case and surrounding whitespace
CaseAndSpaceVariants == { Str(<<"a">>), Str(<<" ", "A", " ">>) }

EntryOf(c, k) == c[CHOOSE i \in 1..Len(c) : c[i].key = k]

Without(c, k) == SelectSeq(c, LAMBDA e : e.key # k)

---------------------------------------------------------------------------
(* C1: the cache never holds more than CacheMaxSize (500) entries.         *)
(* Refuted: when the oldest key is the empty string (the key of a          *)
(* whitespace-only word), `if (oldestKey)` is false and nothing is evicted.*)
C1_CacheBounded == Len(cache) <= CacheMaxSize

(* C2 as claimed: calls for one word made less than a ttl apart perform at  *)
(* most one network call, also when they overlap.  Refuted: two            *)
(* overlapping calls for the same word both miss and both go to the        *)
(* network.                                                                *)
C2_OneNetworkCallPerWord ==
  now < cacheTTL =>
    \A c1, c2 \in Callers :
       (c1 # c2 /\ calls[c1].pc = "awaiting" /\ calls[c2].pc = "awaiting")
         => calls[c1].cleanWord # calls[c2].cleanWord

(* C2 as amended: a network call for a word is issued only by a call that  *)
(* starts while the cache holds no unexpired entry for the word.           *)
C2_NetworkOnlyOnMiss ==
  [][ \A w \in ValidWords : GoesToNetwork(w) => ~Unexpired(KeyOf(w)) ]_vars

\* a call returned a hit while no network call is outstanding
C2_Witness ==
  /\ returned.lookup = "hit"
  /\ \A c \in Callers : calls[c].pc = "idle"

(* C3: storing a new key into a full cache removes exactly one entry, the  *)
(* one inserted earliest, and a cache hit changes nothing.  Refuted for    *)
(* the same reason as C1: an oldest key '' is never removed.               *)
C3_EvictsEarliestInserted ==
  [][ /\ \A w \in ValidWords :
           ( /\ returned'.word = w
             /\ returned'.result.cached = "false"
             /\ ~\E i \in 1..Len(cache) : cache[i].key = KeyOf(w)
             /\ Len(cache) >= CacheMaxSize )
           => /\ Len(cache') = Len(cache)
              /\ SubSeq(cache', 1, Len(cache') - 1) = Tail(cache)
              /\ cache'[Len(cache')].key = KeyOf(w)
      /\ (returned'.result.cached = "true" => cache' = cache)
    ]_vars

(* C4: a lookup of a key whose entry has now - timestamp >= ttl deletes    *)
(* the entry and the call goes on as a miss (to the API key check and the  *)
(* network call); a successful network call stores the entry stamped with  *)
(* the current time.                                                       *)
C4_LazyExpiry ==
  [][ /\ \A w \in ValidWords :
           (Started(w) /\ Expired(KeyOf(w)))
           => /\ ~\E i \in 1..Len(cache') : cache'[i].key = KeyOf(w)
              /\ returned'.result.cached # "true"
              /\ (apiConfig.apiKey # <<>> <=> GoesToNetwork(w))
      /\ \A w \in ValidWords :
           (returned'.word = w /\ returned'.result.cached = "false")
           => /\ \E i \in 1..Len(cache') : cache'[i].key = KeyOf(w)
              /\ EntryOf(cache', KeyOf(w)).timestamp = now
              /\ EntryOf(cache', KeyOf(w)).data = returned'.result.data
    ]_vars

\* a call that found its entry expired has fetched and stored it again
C4_Witness ==
  /\ returned.lookup = "expired"
  /\ returned.result.cached = "false"
  /\ now >= cacheTTL

(* C5: a getMeaning for a word whose entry is in the cache and within its  *)
(* ttl returns success, cached = true and the payload of the entry, and    *)
(* makes no network call.                                                  *)
C5_HitReturnsStored ==
  [][ \A w \in ValidWords :
        (Started(w) /\ Unexpired(KeyOf(w)))
        => /\ ReturnsAtOnce(w)
           /\ returned'.result =
                Returned(TRUE, EntryOf(cache, KeyOf(w)).data, "true", "undefined")
    ]_vars

\* a hit returned the payload of the entry that the cache holds
C5_Witness ==
  /\ returned.result.cached = "true"
  /\ \E i \in 1..Len(cache) : /\ cache[i].key = returned.cleanWord
                              /\ cache[i].data = returned.result.data

(* C6: getMeaning of '', null or a non-string returns the invalid-word     *)
(* failure at once, without a network call and without touching the cache. *)
C6_InvalidInput ==
  [][ \A w \in InvalidWords :
        Started(w)
        => /\ ReturnsAtOnce(w)
           /\ returned'.result = Returned(FALSE, NoData, "undefined", MsgInvalidWord)
           /\ returned'.lookup = "none"
           /\ cache' = cache
    ]_vars

\* the empty string was rejected while the cache held entries
C6_Witness ==
  /\ returned.word = Str(<<>>)
  /\ returned.result.error = MsgInvalidWord
  /\ cache # <<>>

(* C7 as claimed: a valid word that misses the cache while the API key is  *)
(* absent fails with the missing-key error, no network call, cache         *)
(* unchanged.  Refuted: a miss on an expired entry deletes that entry.     *)
C7_ConfigErrorCacheUnchanged ==
  [][ \A w \in ValidWords :
        (Started(w) /\ ~Unexpired(KeyOf(w)) /\ apiConfig.apiKey = <<>>)
        => /\ ReturnsAtOnce(w)
           /\ returned'.result = Returned(FALSE, NoData, "undefined", MsgMissingApiKey)
           /\ cache' = cache
    ]_vars

(* C7 as amended: ... the cache is unchanged except that an expired entry  *)
(* of that word is removed.                                                *)
C7_ConfigErrorNoNetwork ==
  [][ \A w \in ValidWords :
        (Started(w) /\ ~Unexpired(KeyOf(w)) /\ apiConfig.apiKey = <<>>)
        => /\ ReturnsAtOnce(w)
           /\ returned'.result = Returned(FALSE, NoData, "undefined", MsgMissingApiKey)
           /\ cache' = Without(cache, KeyOf(w))
    ]_vars

\* the missing-key failure was returned after an expired entry was dropped
C7_Witness ==
  /\ returned.result.error = MsgMissingApiKey
  /\ returned.lookup = "expired"

(* C8: whatever the API call settles with, getMeaning returns a tagged     *)
(* result, success with data or failure with an error, never an exception. *)
C8_TaggedResult ==
  returned # NoReturn =>
    /\ returned.result.status = "returned"
    /\ \/ /\ returned.result.success
          /\ returned.result.data.source = ProviderName
          /\ returned.result.cached \in {"true", "false"}
          /\ returned.result.error = "undefined"
       \/ /\ ~returned.result.success
          /\ returned.result.data = NoData
          /\ returned.result.error # "undefined"

\* a rejection of the API call came back as a failure result
C8_Witness ==
  /\ returned.result.status = "returned"
  /\ returned.result.error \in {MsgUnknownError, "Failed to fetch"}

(* C9: with a positive timeout and an endpoint that never responds, the    *)
(* request is eventually aborted and the caller eventually gets a failure  *)
(* whose error is the timeout message; the request does not stay pending.  *)
C9_TimeoutReachesCaller ==
  /\ \A c \in Callers :
       (reqs[c].st = "fetching" /\ reqs[c].silent /\ reqs[c].timeout > 0)
         ~> (calls[c].pc = "idle")
  /\ [][ \A c \in Callers :
           (reqs[c].silent /\ calls[c].pc = "awaiting" /\ calls'[c].pc = "idle")
           => /\ reqs[c].aborted
              /\ returned'.result =
                   Returned(FALSE, NoData, "undefined", MsgTimeout) ]_vars

\* a call whose endpoint never answered has returned the timeout failure
C9_Witness ==
  /\ returned.result.error = MsgTimeout
  /\ \E c \in Callers : calls[c].pc = "idle" /\ reqs[c].st = "none"

(* C10: the abort timer is armed iff the request's timeout is positive;    *)
(* the timeout message is reported only for an abort that fired, and every *)
(* other failure is reported with another message.                         *)
C10_TimeoutDistinguishable ==
  \A c \in Callers :
    /\ reqs[c].st \in {"fetching", "reading", "responded"}
         => (reqs[c].timerSet <=> reqs[c].timeout > 0)
    /\ reqs[c].timerLive => reqs[c].timerSet
    /\ reqs[c].aborted => reqs[c].timerSet
    /\ reqs[c].response.kind = "failure"
         => /\ reqs[c].response.message = MsgTimeout
                 <=> reqs[c].response.thrown = "AbortError"
            /\ reqs[c].response.thrown = "AbortError" => reqs[c].aborted

\* one request was answered with the timeout message, another with a
\* transport failure
C10_Witness ==
  \E c1, c2 \in Callers :
    /\ reqs[c1].response.message = MsgTimeout
    /\ reqs[c2].response.thrown = "TypeError"

(* C11: within one session the missing-API-key notification is shown at    *)
(* most once for any number and interleaving of validate-configuration     *)
(* messages, here counted for the flag-gated (page_load) path only.        *)
(* Refuted: the flag is read before one await and written after another,  *)
(* so two messages both read it unset and both notify.                     *)
C11_NotifiedAtMostOnce == notifications.page_load <= 1

(* C12: getBatchPhonetics starts one lookup per word before any of them    *)
(* returns, and returns a list as long as words whose i-th element is the  *)
(* result for words[i] whatever the order of completion; a failed lookup   *)
(* is a failure at its own position and never fails or shortens the batch. *)
C12_BatchPositional ==
  /\ batch.pc = "mapping"
       => \A i \in 1..Len(batch.words) :
            batch.lookups[i].phonetic.status = "pending"
  /\ batch.pc = "joining"
       => \A i \in 1..Len(batch.words) :
            \/ batch.lookups[i].meaning.status = "returned"
            \/ calls[i].pc = "awaiting" /\ calls[i].word = batch.words[i]
  /\ batch.pc = "done"
       => /\ Len(batch.results) = Len(batch.words)
          /\ \A i \in 1..Len(batch.words) :
               LET r == batch.results[i]
                   w == batch.words[i]
               IN /\ r.status = "returned"
                  /\ r.success => r.data.word = w
                  /\ (~r.success /\ w \in InvalidWords) <=> r.error = MsgInvalidWord
                  /\ r.data.aiTranslation.explain \in
                       { Placeholder(KeyOf(x)) : x \in ValidWords }
                       => r.data.aiTranslation.explain = Placeholder(KeyOf(w))

\* a batch of two words returned a failure first and a success second
C12_Witness ==
  /\ batch.pc = "done"
  /\ Len(batch.words) = 2
  /\ ~batch.results[1].success
  /\ batch.results[2].success

(* C14: getPhonetic succeeds exactly when its getMeaning succeeded; on      *)
(* success its phonetics list is empty and it carries getMeaning's entry   *)
(* and cached flag, on failure getMeaning's error.                         *)
C14_PhoneticWrapsMeaning ==
  \A i \in 1..Len(batch.words) :
    LET meaning == batch.lookups[i].meaning
        phonetic == batch.lookups[i].phonetic
    IN phonetic.status = "returned"
       => /\ meaning.status = "returned"
          /\ phonetic.success <=> meaning.success
          /\ phonetic.success
               => /\ phonetic.data.phonetics = <<>>
                  /\ phonetic.data.word = batch.words[i]
                  /\ phonetic.data.aiTranslation = meaning.data
                  /\ phonetic.cached = meaning.cached
                  /\ phonetic.error = "undefined"
          /\ ~phonetic.success
               => /\ phonetic.error = meaning.error
                  /\ phonetic.data = NoPhoneticInfo

\* one getPhonetic returned a cache hit and another a failure
C14_Witness ==
  /\ Len(batch.words) = 2
  /\ \E i, j \in 1..2 :
       /\ batch.lookups[i].phonetic.cached = "true"
       /\ batch.lookups[j].phonetic.status = "returned"
       /\ ~batch.lookups[j].phonetic.success

(* C13: words that differ only in letter case or in leading/trailing      *)
(* whitespace have the same cache key: right after a successful getMeaning *)
(* for one of them, getMeaning for the other is a cache hit with the same  *)
(* payload and goes to no network call.                                    *)
C13_SameKeyForVariants ==
  [][ /\ \A w1, w2 \in CaseAndSpaceVariants :
           (returned.word = w1 /\ returned.result.success /\ Started(w2))
           => /\ ReturnsAtOnce(w2)
              /\ returned'.result =
                   Returned(TRUE, returned.result.data, "true", "undefined")
      /\ \A w \in CaseAndSpaceVariants :
           /\ GoesToNetwork(w)
                => \A c \in Callers :
                     calls'[c].word = w => calls'[c].cleanWord = <<"a">>
           /\ (Started(w) /\ returned'.word = w)
                => returned'.cleanWord = <<"a">>
    ]_vars

\* " A " was answered from the cache right after "a" had been fetched
C13_Witness ==
  /\ returned.word = Str(<<" ", "A", " ">>)
  /\ returned.result.cached = "true"
  /\ returned.cleanWord = <<"a">>

(* C15: after one or more updateTooltipWithMeaning calls on a tooltip that *)
(* has a meaning container, the container holds no loading placeholder and *)
(* exactly one meaning-text node, whose text is that of the last call,     *)
(* whether the tooltip was built loading or with a resolved meaning.       *)
C15_OneMeaningText ==
  (lastCall.op = "updateTooltipWithMeaning" /\ tooltip.hasMeaningContainer)
    => tooltip.meaningContainer = << Node("wxt-meaning-text", lastCall.text.s) >>

\* a tooltip built with a resolved meaning "x" now shows "y"
C15_Witness ==
  /\ lastCall.op = "updateTooltipWithMeaning"
  /\ tooltip.kind = "word"
  /\ tooltip.meaningContainer = << Node("wxt-meaning-text", <<"y">>) >>

(* C16: each updateTooltipWithPhonetic call on a tooltip with a phonetic   *)
(* row removes the loading placeholder and appends exactly one terminal    *)
(* node (phonetic text, or an error node with the error message or the     *)
(* 'no phonetic' text): one terminal node after one call on a loading row, *)
(* one more for each further call.                                         *)
C16_OneTerminalPerCall ==
  [][ (lastCall'.op = "updateTooltipWithPhonetic" /\ tooltip.hasPhoneticRow)
      => LET kept == SelectSeq(tooltip.phoneticRow,
                               LAMBDA n : n.class # "wxt-phonetic-loading")
             row == tooltip'.phoneticRow
         IN /\ Len(row) = Len(kept) + 1
            /\ SubSeq(row, 1, Len(kept)) = kept
            /\ row[Len(row)].class \in {"wxt-phonetic-text", "wxt-phonetic-error"}
            /\ row[Len(row)].text # <<>>
            /\ tooltip.phoneticRow =
                 << Node("wxt-phonetic-loading", PhoneticLoadingText) >>
                 => Len(row) = 1
    ]_vars

\* a second call has left two terminal nodes in the row
C16_Witness ==
  /\ lastCall.op = "updateTooltipWithPhonetic"
  /\ Len(tooltip.phoneticRow) = 2
  /\ \A i \in 1..2 : tooltip.phoneticRow[i].class # "wxt-phonetic-loading"

\* the number of word tokens in each of the texts '', 'a', 'a b', 'a,'
TokenCount(text) ==
  CASE text = <<>> -> 0
    [] text = <<"a">> -> 1
    [] text = <<"a", " ", "b">> -> 2
    [] text = <<"a", ",">> -> 1

\* the one child that the phonetic row of a freshly built tooltip must have
ExpectedRowClass(hasText, hasError) ==
  IF hasText THEN "wxt-phonetic-text"
  ELSE IF hasError THEN "wxt-phonetic-error"
  ELSE "wxt-phonetic-loading"

(* C17: createMainTooltipHTML yields the phrase view exactly when the text *)
(* has more than one word token and the word view otherwise; in the word   *)
(* view and in the nested word tooltip the phonetic row shows exactly one  *)
(* of: the phonetic text if present, else the error if the error flag is   *)
(* set, else the loading placeholder; the meaning block shows the          *)
(* explanation if a translation is attached, else the loading placeholder. *)
C17_BuilderStates ==
  /\ lastCall.op = "createMainTooltipHTML"
       => LET ph == lastCall.phonetic
              hasText == ph.phonetics # <<>> /\ ph.phonetics[1].text # <<>>
          IN /\ tooltip.kind = "phrase" <=> TokenCount(lastCall.word) > 1
             /\ tooltip.kind # "phrase" => tooltip.kind = "word"
             /\ tooltip.kind = "phrase"
                  => /\ Len(tooltip.entries) = TokenCount(lastCall.word)
                     /\ ~tooltip.hasPhoneticRow
                     /\ ~tooltip.hasMeaningContainer
             /\ tooltip.kind = "word"
                  => /\ Len(tooltip.phoneticRow) = 1
                     /\ tooltip.phoneticRow[1].class =
                          ExpectedRowClass(hasText, ph.error.hasPhoneticError)
                     /\ hasText
                          => tooltip.phoneticRow[1].text = ph.phonetics[1].text
                     /\ tooltip.meaningContainer =
                          IF ph.aiTranslation # NoData
                          THEN << Node("wxt-meaning-text", ph.aiTranslation.explain) >>
                          ELSE << Node("wxt-meaning-loading", MeaningLoadingText) >>
  /\ lastCall.op = "createNestedWordTooltipHTML"
       => LET hasText == lastCall.text.t = "string" /\ lastCall.text.s # <<>>
          IN /\ tooltip.kind = "nested"
             /\ Len(tooltip.phoneticRow) = 1
             /\ tooltip.phoneticRow[1].class =
                  ExpectedRowClass(hasText, lastCall.hasError)
             /\ hasText => tooltip.phoneticRow[1].text = lastCall.text.s
             /\ (~hasText /\ lastCall.hasError /\ lastCall.message.t = "string")
                  => tooltip.phoneticRow[1].text = lastCall.message.s
             /\ tooltip.meaningContainer =
                  << Node("wxt-meaning-loading", MeaningLoadingText) >>

\* a word view built from data with both phonetic text and the error flag
\* shows the text
C17_Witness ==
  /\ lastCall.op = "createMainTooltipHTML"
  /\ lastCall.phonetic.error.hasPhoneticError
  /\ tooltip.kind = "word"
  /\ tooltip.phoneticRow = << Node("wxt-phonetic-text", <<"f">>) >>

\* the step is the return of a getMeaning whose API call succeeded with
\* text that is not blank
ParsedText ==
  /\ apiSettled'.success
  /\ apiSettled'.content.t = "string"
  /\ apiSettled'.content.s \notin {<<>>, <<" ">>}

\* the step is the return of a getMeaning whose API call succeeded with
\* empty, blank or non-text content
ParsedUnusable ==
  /\ apiSettled'.success
  /\ \/ apiSettled'.content.t # "string"
     \/ apiSettled'.content.s \in {<<>>, <<" ">>}

(* C18: the explanation derived from a response is cut before it is stored *)
(* and returned: a cleaned response longer than ExplainMaxLen (200)        *)
(* becomes its first ExplainMaxLen characters followed by '...', so no     *)
(* such explanation is longer than ExplainMaxLen + 3, and a cleaned        *)
(* response of at most ExplainMaxLen characters is stored as it is.        *)
C18_TruncatedBeforeStoring ==
  [][ ParsedText
      => LET cleaned == cleanMarkdownFromResponse(trim(apiSettled'.content.s))
             explain == returned'.result.data.explain
         IN /\ Len(cleaned) > ExplainMaxLen
                 => explain = SubSeq(cleaned, 1, ExplainMaxLen) \o <<".", ".", ".">>
            /\ Len(cleaned) <= ExplainMaxLen => explain = cleaned
            /\ Len(explain) <= ExplainMaxLen + 3
            /\ EntryOf(cache', returned'.cleanWord).data.explain = explain
            /\ \A i \in 1..Len(cache') :
                 \/ Len(cache'[i].data.explain) <= ExplainMaxLen + 3
                 \/ cache'[i].data.explain = Placeholder(cache'[i].key)
    ]_vars

\* a response longer than the limit came back cut, with the ellipsis
C18_Witness ==
  /\ apiSettled.success
  /\ Len(apiSettled.content.s) > ExplainMaxLen
  /\ Len(returned.result.data.explain) = ExplainMaxLen + 3
  /\ returned.result.data.explain[ExplainMaxLen + 1] = "."

(* C20: when the API call succeeds with empty or unusable content,         *)
(* getMeaning returns success with the 'meaning unavailable for <word>'    *)
(* placeholder (source 'ai-translation', cached = false) and stores it     *)
(* like any other result; a later call within the ttl returns it as a hit. *)
C20_PlaceholderStored ==
  [][ /\ ParsedUnusable
        => LET entry == [explain |-> returned'.cleanWord \o UnavailableSuffix,
                         source |-> "ai-translation"]
           IN /\ returned'.result = Returned(TRUE, entry, "false", "undefined")
              /\ EntryOf(cache', returned'.cleanWord).data = entry
              /\ EntryOf(cache', returned'.cleanWord).timestamp = now
      /\ \A w \in ParseWords :
           ( /\ Started(w)
             /\ Unexpired(KeyOf(w))
             /\ EntryOf(cache, KeyOf(w)).data.explain = KeyOf(w) \o UnavailableSuffix )
           => /\ ReturnsAtOnce(w)
              /\ returned'.result =
                   Returned(TRUE, EntryOf(cache, KeyOf(w)).data, "true", "undefined")
    ]_vars

\* a stored placeholder was returned by a later call as a cache hit
C20_Witness ==
  /\ returned.result.cached = "true"
  /\ returned.cleanWord # <<>>
  /\ returned.result.data.explain = returned.cleanWord \o UnavailableSuffix

(* C19: the entry handed to a caller is a copy of the cached one: whatever *)
(* the caller does to the data it received, a later cache hit for the word *)
(* returns the explanation and source that were stored.  Refuted:          *)
(* getMeaning returns the cached object itself, so a caller's write shows  *)
(* in the next hit.                                                        *)
C19_HitReturnsOriginal ==
  (returned.result.cached = "true" /\ held.valid
     /\ held.key = returned.cleanWord)
    => returned.result.data = held.original

(* C21 as claimed: a getMeaning call that ends in failure leaves the cache  *)
(* exactly as it was.  Refuted: the cache lookup precedes the key check    *)
(* and the network call, and it deletes an expired entry of the word.      *)
C21_FailureLeavesCache ==
  [][ (returned' # NoReturn /\ ~returned'.result.success) => cache' = cache
    ]_vars

(* C21 as amended: a getMeaning call that ends in failure adds, refreshes  *)
(* and evicts nothing; its only effect on the cache is the removal, by its *)
(* own lookup, of an expired entry of the word it was called with.  The    *)
(* lookup of a call that goes on to the network removes just that entry,   *)
(* a failing return after the network call changes nothing, and an invalid *)
(* word does not reach the lookup.                                         *)
C21_FailureRemovesOnlyExpired ==
  [][ /\ \A w \in WordInputs :
           (ReturnsAtOnce(w) /\ ~returned'.result.success)
           => cache' = IF w \in ValidWords /\ Expired(KeyOf(w))
                       THEN Without(cache, KeyOf(w))
                       ELSE cache
      /\ \A w \in ValidWords :
           GoesToNetwork(w)
           => cache' = IF Expired(KeyOf(w)) THEN Without(cache, KeyOf(w))
                       ELSE cache
      /\ (calls' # calls /\ returned' # NoReturn /\ ~returned'.result.success)
           => cache' = cache
    ]_vars

\* a call whose lookup had dropped an expired entry came back from the
\* network with a failure, and the word is not in the cache
C21_Witness ==
  /\ returned.lookup = "expired"
  /\ returned.result.error \in {MsgRequestFailed, MsgTimeout, MsgUnknownError}
  /\ ~\E i \in 1..Len(cache) : cache[i].key = returned.cleanWord

(* C22: updateApiConfig changes only the stored API configuration, and the *)
(* timeout only when a timeout argument is given, and leaves the cache     *)
(* untouched; the cache is consulted before the API key is checked, so a   *)
(* word cached earlier is still returned as a hit while the configuration  *)
(* has no API key.                                                         *)
C22_ConfigOnly ==
  [][ /\ configCall'.made
           => /\ apiConfig' = [apiKey |-> configCall'.apiKey]
              /\ timeout' = IF configCall'.given THEN configCall'.timeout
                             ELSE timeout
              /\ cache' = cache
              /\ calls' = calls
              /\ now' = now
      /\ \A w \in ValidWords :
           (Started(w) /\ Unexpired(KeyOf(w)) /\ apiConfig.apiKey = <<>>)
           => /\ ReturnsAtOnce(w)
              /\ returned'.result.success
              /\ returned'.result.cached = "true"
              /\ returned'.result.data = EntryOf(cache, KeyOf(w)).data
    ]_vars

\* a word was returned as a cache hit while the configuration that replaced
\* the one it was fetched under has no API key
C22_Witness ==
  /\ returned.result.cached = "true"
  /\ returned.lookup = "hit"
  /\ apiConfig.apiKey = <<>>
  /\ timeout = 1

(* C23: the builder and the patcher agree on the phonetic state: whenever  *)
(* createWordTooltipHTML renders a terminal state (text or error) for a    *)
(* phonetic info, updateTooltipWithPhonetic appends an element of the same *)
(* kind for that info.  Refuted: for an info with the error flag set and a *)
(* phonetic text, the builder renders the text (text before error) and the *)
(* patcher appends the error (error flag before text).                     *)
C23_BuilderAndPatcherAgree ==
  [][ (lastCall'.op = "updateTooltipWithPhonetic" /\ tooltip.hasPhoneticRow)
      => LET info == lastCall'.phonetic
             built == createWordTooltipHTML(
                        [word |-> <<"a">>, phonetic |-> info]).phoneticRow
             row == tooltip'.phoneticRow
         IN built[1].class # "wxt-phonetic-loading"
              => row[Len(row)].class = built[1].class
    ]_vars

(* C24: every validate-configuration message is answered exactly once,     *)
(* with true iff the active API configuration has a non-empty API key; a   *)
(* true answer creates no notification, a settings-read failure answers    *)
(* false without a notification, and a request with source 'user_action'   *)
(* is answered without the session flag being read or set.  Refuted: the   *)
(* awaits of storage.session.get and storage.session.set are outside the   *)
(* try block, so when one of them is rejected the handler ends without     *)
(* calling sendResponse and the message is never answered.                 *)
C24_AnsweredExactlyOnce ==
  [][ \A m \in Messages :
        LET before == validations[m]
            after == validations'[m]
            ended == /\ before.pc \in {"settings", "flagGet", "flagSet"}
                     /\ after.pc \in {"done", "failed"}
        IN /\ ended => Len(after.answers) = 1
           /\ (ended /\ after.answers = <<TRUE>>)
                => /\ before.pc = "settings"
                   /\ isConfigValid(settings)
                   /\ notifications' = notifications
           /\ (ended /\ after.answers = <<FALSE>> /\ before.pc = "settings")
                => \/ notifications' = notifications
                   \/ /\ before.source = "user_action"
                      /\ ~isConfigValid(settings)
           /\ (ended /\ before.pc \in {"flagGet", "flagSet"})
                => before.source # "user_action"
    ]_vars

\* the value that each response body stands for, for the bodies that are
\* JSON, and the bodies that are not JSON
JsonValueOf ==
  { << <<"\"", "x", "\"">>, Str(<<"x">>) >>,
    << <<"\"", "*", "x", "\"">>, Str(<<"*", "x">>) >>,
    << <<"\"", " ", "\"">>, Str(<<" ">>) >>,
    << <<"\"", "\"">>, Str(<<>>) >>,
    << <<"n", "u", "l", "l">>, NullValue >>,
    << <<"1">>, NumberValue >> }
NotJson == { <<"x">>, <<>>, <<"\"", "x">> }

(* C25 as claimed: every api-request message receives at most one         *)
(* response, and exactly one once the fetch and the body read have        *)
(* settled; the response is success, with the body parsed as JSON or the  *)
(* raw text, exactly when the HTTP status is OK; a failure with status    *)
(* code and status text on a non-OK status; a failure with only a message *)
(* when the fetch throws or is aborted.  Refuted: when the status is OK   *)
(* and the read of the body fails, the response is a failure.             *)
C25_SuccessIffStatusOk ==
  \A c \in Callers :
    /\ reqs[c].responses <= 1
    /\ reqs[c].st = "responded"
         => /\ reqs[c].responses = 1
            /\ reqs[c].response.kind = "success" <=> reqs[c].ok

(* C25 as amended: at most one response per message, and exactly one once *)
(* the fetch and the body read have settled.  The response is success,    *)
(* with the body parsed as JSON or the raw text when it is not JSON,      *)
(* exactly when the status is OK and the body was read; a failure with    *)
(* the status code and the status text when the status is not OK and the  *)
(* body was read; and a failure with only a message when the fetch or the *)
(* read of the body throws or the request is aborted.                     *)
C25_OneResponse ==
  \A c \in Callers :
    LET r == reqs[c]
        answer == r.response
    IN /\ r.responses <= 1
       /\ r.st = "responded" <=> r.responses = 1
       /\ r.st # "responded" => answer = NoResponse
       /\ r.st = "responded"
            => /\ answer.kind = "success" <=> (r.ok /\ answer.thrown = "none")
               /\ answer.kind = "success"
                    => /\ \A p \in JsonValueOf :
                            r.body = p[1] => answer.data = p[2]
                       /\ r.body \in NotJson => answer.data = Str(r.body)
                       /\ answer.message = ""
                       /\ answer.status = 0
               /\ (~r.ok /\ answer.thrown = "none")
                    => /\ answer.kind = "failure"
                       /\ answer.status = 500
                       /\ answer.statusText = "Internal Server Error"
                       /\ answer.message = HttpErrorMessage
               /\ answer.thrown # "none"
                    => /\ answer.kind = "failure"
                       /\ answer.message # ""
                       /\ answer.status = 0
                       /\ answer.statusText = ""
                       /\ answer.data = NullValue

\* one request was answered with a parsed JSON body, the other with the
\* raw text of a body that is not JSON
C25_Witness ==
  \E c1, c2 \in Callers :
    /\ reqs[c1].response.kind = "success"
    /\ reqs[c1].body = <<"\"", "x", "\"">>
    /\ reqs[c2].response.kind = "success"
    /\ reqs[c2].body = <<"\"", "x">>

====
